---------------------------- MODULE Spec2Model ----------------------------
(***************************************************************************)
(* Model of the internal astrology engine of jyotisya-astrology            *)
(* (services/astro-core-python): the lazily loaded ephemeris handle, the   *)
(* startup event, POST /planets and GET /health, and the chart arithmetic. *)
(*                                                                         *)
(* Angles are fixed-point integers.  One degree is Deg units, a unit is a  *)
(* third of the 10^-6 degree step that round(x, 6) keeps, so a value has   *)
(* two positions between neighbouring rounded values and a nakshatra       *)
(* (360/27 degrees) and a pada (360/108 degrees) are whole numbers of      *)
(* units.  Times of day are in milliseconds.                               *)
(***************************************************************************)
EXTENDS Integers, Sequences, FiniteSets, TLC

\* round(x, 6) keeps RoundScale steps per degree
RoundScale == 1000000
\* model resolution: units per rounding step (not a bare bound: 540 degrees
\* must stay below 2^31)
Deg == 3 * RoundScale
Circle == 360 * Deg

None == "None"

-----------------------------------------------------------------------------
(* datetime: the calendar of Python's datetime, as far as routes.py uses it *)

IsLeap(y) == (y % 4 = 0) /\ ((y % 100 # 0) \/ (y % 400 = 0))

DaysInMonth(y, m) ==
  CASE m \in {1, 3, 5, 7, 8, 10, 12} -> 31
    [] m \in {4, 6, 9, 11} -> 30
    [] OTHER -> IF IsLeap(y) THEN 29 ELSE 28

DaysBeforeYear(y) ==
  (y - 1) * 365 + ((y - 1) \div 4) - ((y - 1) \div 100) + ((y - 1) \div 400)

RECURSIVE DaysBeforeMonth(_, _)
DaysBeforeMonth(y, m) ==
  IF m = 1 THEN 0 ELSE DaysBeforeMonth(y, m - 1) + DaysInMonth(y, m - 1)

\* datetime(y, m, d, ...) raises ValueError for a day the month does not have
DatetimeOk(r) == r.date <= DaysInMonth(r.year, r.month)

\* a datetime as [ord: proleptic Gregorian ordinal, sec: second of the day]
ToOrdinal(y, m, d) == DaysBeforeYear(y) + DaysBeforeMonth(y, m) + d

local_dt(r) ==
  [ord |-> ToOrdinal(r.year, r.month, r.date),
   sec |-> r.hours * 3600 + r.minutes * 60 + r.seconds]

\* mutant: the offset is added
utc_dt_Added(r) ==
  LET s == local_dt(r).sec + r.timezone * 60
  IN  [ord |-> local_dt(r).ord + (s \div 86400), sec |-> s % 86400]

\* local_dt - timedelta(hours=request.timezone); the offset is kept in minutes
utc_dt(r) ==
  LET s == local_dt(r).sec - r.timezone * 60
  IN  [ord |-> local_dt(r).ord + (s \div 86400), sec |-> s % 86400]

\* the calendar fields of a datetime (dt.year, dt.month, dt.day, ...)
FieldsOf(dt) ==
  LET y == CHOOSE yy \in (dt.ord \div 366)..((dt.ord \div 365) + 1) :
             DaysBeforeYear(yy) < dt.ord /\ dt.ord <= DaysBeforeYear(yy + 1)
      n == dt.ord - DaysBeforeYear(y)
      m == CHOOSE mm \in 1..12 :
             DaysBeforeMonth(y, mm) < n /\ n <= DaysBeforeMonth(y, mm) + DaysInMonth(y, mm)
  IN  [year |-> y, month |-> m, day |-> n - DaysBeforeMonth(y, m),
       hour |-> dt.sec \div 3600, minute |-> (dt.sec % 3600) \div 60,
       second |-> dt.sec % 60]

-----------------------------------------------------------------------------
(* houses.py: Julian Date.  A Julian Date is [k, ms], the value            *)
(* k + 0.5 + ms / 86400000: k + 0.5 is the midnight that starts the day.   *)

\* mutant: January and February are not moved to the end of the year before
datetime_to_julian_date_NoAdjust(dt) ==
  LET f == FieldsOf(dt)
      a == f.year \div 100
      b == 2 - a + (a \div 4)
  IN  [k |-> ((1461 * (f.year + 4716)) \div 4) + ((306001 * (f.month + 1)) \div 10000)
               + f.day + b - 1525,
       ms |-> (f.hour * 3600 + f.minute * 60 + f.second) * 1000]

datetime_to_julian_date(dt) ==
  LET f == FieldsOf(dt)
      year == IF f.month <= 2 THEN f.year - 1 ELSE f.year
      month == IF f.month <= 2 THEN f.month + 12 ELSE f.month
      a == year \div 100
      b == 2 - a + (a \div 4)
  IN  [k |-> ((1461 * (year + 4716)) \div 4) + ((306001 * (month + 1)) \div 10000)
               + f.day + b - 1525,
       ms |-> (f.hour * 3600 + f.minute * 60 + f.second) * 1000]

-----------------------------------------------------------------------------
(* planetary.py: Lahiri ayanamsha, in units, rounded down.                 *)
(* (50.26 / 3600) * Deg / 365.25 = 1507800 / 13149 units per day           *)
(*                               = 114 + 8814 / 13149                      *)

\* mutant: the precession runs backwards
calculate_lahiri_ayanamsha_Backward(jd) ==
  LET days == jd.k - 2433282
      sec == jd.ms \div 1000
      part == (sec * 2513 + (((jd.ms % 1000) * 2513) \div 1000)) \div 144
  IN  23 * Deg + ((85 * Deg) \div 100) - (days * 114 + ((days * 8814 + part) \div 13149))

calculate_lahiri_ayanamsha(jd) ==
  LET days == jd.k - 2433282
      sec == jd.ms \div 1000
      \* the time of day's share of 1507800 per day: ms * 2513 / 144000
      part == (sec * 2513 + (((jd.ms % 1000) * 2513) \div 1000)) \div 144
  IN  23 * Deg + ((85 * Deg) \div 100) + days * 114 + ((days * 8814 + part) \div 13149)

\* What the double carries below one unit: the ayanamsha of jd is
\* calculate_lahiri_ayanamsha(jd) + (num + sub / 1000) / (13149 * 144) units
LahiriFraction(jd) ==
  LET days == jd.k - 2433282
      sec == jd.ms \div 1000
      millis == (jd.ms % 1000) * 2513
      parts == ((days * 8814) % 13149) * 144 + sec * 2513 + (millis \div 1000)
  IN  [num |-> parts % (13149 * 144), sub |-> millis % 1000]

-----------------------------------------------------------------------------
(* signs.py, nakshatras.py: the static tables and the lookups              *)

SIGNS == <<"Aries", "Taurus", "Gemini", "Cancer", "Leo", "Virgo", "Libra",
           "Scorpio", "Sagittarius", "Capricorn", "Aquarius", "Pisces">>

SIGN_LORDS == <<"Mars", "Venus", "Mercury", "Moon", "Sun", "Mercury", "Venus",
                "Mars", "Jupiter", "Saturn", "Saturn", "Jupiter">>

NAKSHATRAS == <<"Ashwini", "Bharani", "Krittika", "Rohini", "Mrigashira",
                "Ardra", "Punarvasu", "Pushya", "Ashlesha", "Magha",
                "Purva Phalguni", "Uttara Phalguni", "Hasta", "Chitra",
                "Swati", "Vishakha", "Anuradha", "Jyeshtha", "Mula",
                "Purva Ashadha", "Uttara Ashadha", "Shravana", "Dhanishta",
                "Shatabhisha", "Purva Bhadrapada", "Uttara Bhadrapada",
                "Revati">>

NAKSHATRA_LORDS == <<"Ketu", "Venus", "Sun", "Moon", "Mars", "Rahu", "Jupiter",
                     "Saturn", "Mercury", "Ketu", "Venus", "Sun", "Moon",
                     "Mars", "Rahu", "Jupiter", "Saturn", "Mercury", "Ketu",
                     "Venus", "Sun", "Moon", "Mars", "Rahu", "Jupiter",
                     "Saturn", "Mercury">>

\* Python lists are indexed from 0, sequences from 1
get_sign_name(sign_num) == SIGNS[(sign_num % 12) + 1]
get_sign_lord(sign_num) == SIGN_LORDS[(sign_num % 12) + 1]
get_nakshatra_name(n) == NAKSHATRAS[(n % 27) + 1]
get_nakshatra_lord(n) == NAKSHATRA_LORDS[(n % 27) + 1]

longitude_to_sign(longitude) ==
  LET sign_num == (longitude \div (30 * Deg)) % 12
  IN  [sign_num |-> sign_num,
       sign_name |-> get_sign_name(sign_num),
       sign_lord |-> get_sign_lord(sign_num),
       norm_degree |-> longitude % (30 * Deg)]

\* nakshatra_span = 360.0 / 27.0 is the double next above 40/3.  The
\* division longitude / nakshatra_span rounds to the exact quotient, but
\* longitude % nakshatra_span is exact for that slightly longer span: for a
\* longitude that is a whole number of padas and at least one span (the
\* multiples of 10 degrees from 20 on) the remainder falls short of the exact
\* one, by one unit here.
longitude_to_nakshatra(longitude) ==
  LET nakshatra_span == Circle \div 27
      nakshatra_num == (longitude \div nakshatra_span) % 27
      short == longitude % (10 * Deg) = 0 /\ longitude >= 20 * Deg
      degree_in_nakshatra ==
        IF short THEN ((longitude % nakshatra_span) - 1) % nakshatra_span
        ELSE longitude % nakshatra_span
      pada_span == nakshatra_span \div 4
  IN  [nakshatra_num |-> nakshatra_num,
       nakshatra_name |-> get_nakshatra_name(nakshatra_num),
       nakshatra_lord |-> get_nakshatra_lord(nakshatra_num),
       pada |-> (degree_in_nakshatra \div pada_span) + 1]

\* round(x, 6) for x >= 0: to the nearest rounding step (a unit is a third
\* of a step, so there are no ties)
Round6(x) == ((x + 1) \div 3) * 3


-----------------------------------------------------------------------------
(* The ephemeris (Skyfield with de421.bsp) is an external collaborator: a  *)
(* fixed function of body and instant.  A sky is one sample of it: for     *)
(* each body the apparent tropical longitude seen by the observer (lon)    *)
(* and the geocentric longitudes now and one day earlier (now, prev) that  *)
(* calculate_planet_speed reads.                                           *)

Skies == {"almanac", "boundary"}

\* the instant 2000-01-01 12:00:00 UTC
Noon == [ord |-> 730120, sec |-> 43200]

\* about the true positions of 1 January 2000 (Saturn retrograde)
AlmanacNoon ==
  [Sun     |-> [lon |-> 841110000, now |-> 841110000, prev |-> 838050000],
   Moon    |-> [lon |-> 668460000, now |-> 669960000, prev |-> 633600000],
   Mars    |-> [lon |-> 983880000, now |-> 983880000, prev |-> 981570000],
   Mercury |-> [lon |-> 815670000, now |-> 815670000, prev |-> 810960000],
   Jupiter |-> [lon |-> 75750000, now |-> 75750000, prev |-> 75660000],
   Venus   |-> [lon |-> 724710000, now |-> 724710000, prev |-> 721080000],
   Saturn  |-> [lon |-> 121200000, now |-> 121200000, prev |-> 121290000]]

AlmanacOther ==
  [Sun     |-> [lon |-> 839580000, now |-> 839580000, prev |-> 836520000],
   Moon    |-> [lon |-> 650280000, now |-> 651780000, prev |-> 615420000],
   Mars    |-> [lon |-> 982725000, now |-> 982725000, prev |-> 980415000],
   Mercury |-> [lon |-> 813315000, now |-> 813315000, prev |-> 808605000],
   Jupiter |-> [lon |-> 75705000, now |-> 75705000, prev |-> 75615000],
   Venus   |-> [lon |-> 722895000, now |-> 722895000, prev |-> 719265000],
   Saturn  |-> [lon |-> 121245000, now |-> 121245000, prev |-> 121335000]]

\* bodies at the 0/360 seam: the Sun and Mercury cross it between the two
\* samples, the Moon's sidereal longitude is one unit below 360, Venus's two
\* units below, Jupiter's exactly 0 and Mars's exactly 30
BoundaryNoon ==
  [Sun     |-> [lon |-> 1500000, now |-> 1500000, prev |-> 1078440000],
   Moon    |-> [lon |-> 73644165, now |-> 73644165, prev |-> 37644165],
   Mars    |-> [lon |-> 163644166, now |-> 163644166, prev |-> 161544166],
   Mercury |-> [lon |-> 1079400000, now |-> 1079400000, prev |-> 1800000],
   Jupiter |-> [lon |-> 73644166, now |-> 73644166, prev |-> 73404166],
   Venus   |-> [lon |-> 73644164, now |-> 73644164, prev |-> 70044164],
   Saturn  |-> [lon |-> 600000000, now |-> 600000000, prev |-> 599910000]]

BoundaryOther ==
  [Sun     |-> [lon |-> 1079970000, now |-> 1079970000, prev |-> 1076910000],
   Moon    |-> [lon |-> 55644165, now |-> 55644165, prev |-> 19644165],
   Mars    |-> [lon |-> 162594166, now |-> 162594166, prev |-> 160494166],
   Mercury |-> [lon |-> 600000, now |-> 600000, prev |-> 3000000],
   Jupiter |-> [lon |-> 73524166, now |-> 73524166, prev |-> 73284166],
   Venus   |-> [lon |-> 71844164, now |-> 71844164, prev |-> 68244164],
   Saturn  |-> [lon |-> 599955000, now |-> 599955000, prev |-> 599865000]]

\* bodies near their stations: Mars stands still, Mercury moves back by one
\* unit a day (0.0000003 degrees) and Venus by two, Saturn forward by one
StationSky ==
  [Sun     |-> [lon |-> 841110000, now |-> 841110000, prev |-> 838050000],
   Moon    |-> [lon |-> 668460000, now |-> 669960000, prev |-> 633600000],
   Mars    |-> [lon |-> 983880000, now |-> 983880000, prev |-> 983880000],
   Mercury |-> [lon |-> 815670000, now |-> 815670000, prev |-> 815670001],
   Jupiter |-> [lon |-> 75750000, now |-> 75750000, prev |-> 75660000],
   Venus   |-> [lon |-> 724710000, now |-> 724710000, prev |-> 724710002],
   Saturn  |-> [lon |-> 121200000, now |-> 121200001, prev |-> 121200000]]

\* observer.at(t).observe(body).apparent().ecliptic_latlon() and its
\* geocentric counterparts, for sky s at instant dt
Ephemeris(s, dt) ==
  CASE s = "almanac" /\ dt = Noon -> AlmanacNoon
    [] s = "almanac" /\ dt # Noon -> AlmanacOther
    [] s = "boundary" /\ dt = Noon -> BoundaryNoon
    [] s = "station" -> StationSky
    [] OTHER -> BoundaryOther

\* _ts.from_datetime(dt).tt: Terrestrial Time runs 64.184 s ahead of UTC in
\* the years of the model's requests (32 leap seconds + 32.184 s)
TT(jd) ==
  LET ms == jd.ms + 64184
  IN  [k |-> jd.k + (ms \div 86400000), ms |-> ms % 86400000]

-----------------------------------------------------------------------------
(* planetary.py *)

\* the keys of _planets_map, in insertion order
PLANETS == <<"Sun", "Moon", "Mars", "Mercury", "Jupiter", "Venus", "Saturn">>

\* mutant: no correction for the 0/360 seam
calculate_planet_speed_NoWrap(pos_now, pos_prev, interval_days) ==
  (pos_now - pos_prev) \div interval_days

calculate_planet_speed(pos_now, pos_prev, interval_days) ==
  LET speed == (pos_now - pos_prev) \div interval_days
  IN  IF speed > 180 * Deg THEN speed - Circle
      ELSE IF speed < -(180 * Deg) THEN speed + Circle
      ELSE speed

\* mutant: the else branch uses another system's offset (Raman, about
\* 1 degree 26 minutes less than Lahiri)
PlanetAyanamsha_Raman(ayanamsha, tt) ==
  IF ayanamsha = "lahiri" THEN calculate_lahiri_ayanamsha(tt)
  ELSE calculate_lahiri_ayanamsha(tt) - 4300000

\* the ayanamsha offset of calculate_planet_positions: both branches of the
\* test on ayanamsha.lower() evaluate the Lahiri formula
PlanetAyanamsha(ayanamsha, tt) ==
  IF ayanamsha = "lahiri" THEN calculate_lahiri_ayanamsha(tt)
  ELSE calculate_lahiri_ayanamsha(tt)

PlanetRecord(planet_name, sidereal_long, speed) ==
  LET sign_info == longitude_to_sign(sidereal_long)
      nakshatra_info == longitude_to_nakshatra(sidereal_long)
  IN  [name |-> planet_name,
       fullDegree |-> Round6(sidereal_long),
       normDegree |-> Round6(sign_info.norm_degree),
       speed |-> Round6(speed),
       isRetro |-> speed < 0,
       sign |-> sign_info.sign_name,
       signLord |-> sign_info.sign_lord,
       nakshatra |-> nakshatra_info.nakshatra_name,
       nakshatraLord |-> nakshatra_info.nakshatra_lord,
       house |-> 0]

\* the body of calculate_planet_positions after _ensure_ephemeris: s is the
\* sky the loaded ephemeris holds
calculate_planet_positions(s, dt, latitude, longitude, ayanamsha) ==
  LET t == TT(datetime_to_julian_date(dt))
      ayanamsha_value == PlanetAyanamsha(ayanamsha, t)
      row == Ephemeris(s, dt)
  IN  [i \in 1..Len(PLANETS) |->
         LET body == row[PLANETS[i]]
             sidereal_long == (body.lon - ayanamsha_value) % Circle
         IN  PlanetRecord(PLANETS[i], sidereal_long,
                          calculate_planet_speed(body.now, body.prev, 1))]

NodeRecord(node_name, node_long) ==
  LET sign_info == longitude_to_sign(node_long)
      nakshatra_info == longitude_to_nakshatra(node_long)
  IN  [name |-> node_name,
       fullDegree |-> Round6(node_long),
       normDegree |-> Round6(sign_info.norm_degree),
       speed |-> -159000,
       isRetro |-> TRUE,
       sign |-> sign_info.sign_name,
       signLord |-> sign_info.sign_lord,
       nakshatra |-> nakshatra_info.nakshatra_name,
       nakshatraLord |-> nakshatra_info.nakshatra_lord,
       house |-> 0]

\* mutant: Rahu's longitude is not reduced modulo 360
calculate_rahu_ketu_NoWrap(moon_position) ==
  LET moon_long == moon_position.fullDegree
  IN  <<NodeRecord("Rahu", moon_long + 180 * Deg), NodeRecord("Ketu", moon_long)>>

\* <<rahu, ketu>>
calculate_rahu_ketu(moon_position) ==
  LET moon_long == moon_position.fullDegree
      rahu_long == (moon_long + 180 * Deg) % Circle
      ketu_long == moon_long
  IN  <<NodeRecord("Rahu", rahu_long), NodeRecord("Ketu", ketu_long)>>


-----------------------------------------------------------------------------
(* houses.py *)

\* Sample places, in units: Delhi and the two poles
DelhiLat == 28 * Deg + 1841700
DelhiLon == 77 * Deg + 627000
NorthPole == 90 * Deg
SouthPole == -(90 * Deg)

\* The tropical ascendant, lines 124-154 of calculate_ascendant:
\* atan2(-cos(RAMC), sin(RAMC) cos(eps) + tan(lat) sin(eps)) in degrees
\* mod 360, with RAMC from the local sidereal time.  The transcendental
\* functions are tabulated: each entry is the value the Python code returns
\* for that instant and place, rounded down to units.  At a pole
\* tan(radians(+-90)) is +-1.633e16 in floating point, not an error, and the
\* formula returns 0 or 180.
AscendantTropical(dt, latitude, longitude) ==
  CASE latitude = NorthPole -> 0
    [] latitude = SouthPole -> 180 * Deg
    [] dt = Noon /\ latitude = DelhiLat -> 840586358
    [] OTHER -> 225873105

calculate_ascendant(dt, latitude, longitude, ayanamsha) ==
  LET asc_tropical == AscendantTropical(dt, latitude, longitude) % Circle
  IN  (asc_tropical - ayanamsha) % Circle

\* The tropical midheaven, lines 181-197 of calculate_midheaven, tabulated
\* the same way
MidheavenTropical(dt, longitude) ==
  IF dt = Noon THEN 1072380840 ELSE 1070770005

calculate_midheaven(dt, longitude, ayanamsha) ==
  (MidheavenTropical(dt, longitude) - ayanamsha) % Circle

\* mutant: the loop stops at house 11
calculate_houses_whole_sign_Eleven(ascendant) ==
  LET asc_sign_num == ascendant \div (30 * Deg)
  IN  [house_num \in 1..11 |->
         LET sign_num == (asc_sign_num + house_num - 1) % 12
         IN  [house |-> house_num,
              sign |-> get_sign_name(sign_num),
              degree |-> Round6(sign_num * 30 * Deg)]]

\* mutant: the sign of the ascendant rounded to 6 decimals
calculate_houses_whole_sign_Rounded(ascendant) ==
  LET asc_sign_num == Round6(ascendant) \div (30 * Deg)
  IN  [house_num \in 1..12 |->
         LET sign_num == (asc_sign_num + house_num - 1) % 12
         IN  [house |-> house_num,
              sign |-> get_sign_name(sign_num),
              degree |-> Round6(sign_num * 30 * Deg)]]

calculate_houses_whole_sign(ascendant) ==
  LET asc_sign_num == ascendant \div (30 * Deg)
  IN  [house_num \in 1..12 |->
         LET sign_num == (asc_sign_num + house_num - 1) % 12
         IN  [house |-> house_num,
              sign |-> get_sign_name(sign_num),
              degree |-> Round6(sign_num * 30 * Deg)]]

calculate_houses_placidus(ascendant, mc, latitude) ==
  LET house_1 == ascendant
      house_10 == mc
      house_7 == (ascendant + 180 * Deg) % Circle
      house_4 == (mc + 180 * Deg) % Circle
      \* 2 * x / 3 without leaving 32 bits
      TwoThirds(x) == 2 * (x \div 3) + ((2 * (x % 3)) \div 3)
      house_cusps ==
        <<house_1,
          (house_1 + ((house_4 - house_1) \div 3)) % Circle,
          (house_1 + TwoThirds(house_4 - house_1)) % Circle,
          house_4,
          (house_4 + ((house_7 - house_4) \div 3)) % Circle,
          (house_4 + TwoThirds(house_7 - house_4)) % Circle,
          house_7,
          (house_7 + ((house_10 - house_7) \div 3)) % Circle,
          (house_7 + TwoThirds(house_10 - house_7)) % Circle,
          house_10,
          (house_10 + ((house_1 - house_10) \div 3)) % Circle,
          (house_10 + TwoThirds(house_1 - house_10)) % Circle>>
  IN  [house_num \in 1..12 |->
         LET cusp == house_cusps[house_num]
         IN  [house |-> house_num,
              sign |-> get_sign_name((cusp \div (30 * Deg)) % 12),
              degree |-> Round6(cusp)]]

\* the test of the Placidus loop for house i + 1: the longitude lies in
\* [cusp_i, cusp_i+1), read around 0/360 when the next cusp is the smaller
PlacidusMember(planet_long, houses, i) ==
  LET cusp_this == houses[i + 1].degree
      cusp_next == houses[((i + 1) % 12) + 1].degree
  IN  IF cusp_next < cusp_this
      THEN planet_long >= cusp_this \/ planet_long < cusp_next
      ELSE cusp_this <= planet_long /\ planet_long < cusp_next

\* mutant: the loop without the wraparound branch
RECURSIVE PlacidusHouse_NoWrap(_, _, _)
PlacidusHouse_NoWrap(planet_long, houses, i) ==
  IF i >= 12 THEN 1
  ELSE LET cusp_this == houses[i + 1].degree
           cusp_next == houses[((i + 1) % 12) + 1].degree
       IN  IF cusp_this <= planet_long /\ planet_long < cusp_next
           THEN i + 1
           ELSE PlacidusHouse_NoWrap(planet_long, houses, i + 1)

\* the Placidus branch: the first interval [cusp_i, cusp_i+1) holding the
\* longitude, house 1 if there is none
RECURSIVE PlacidusHouse(_, _, _)
PlacidusHouse(planet_long, houses, i) ==
  IF i >= 12 THEN 1
  ELSE LET cusp_this == houses[i + 1].degree
           cusp_next == houses[((i + 1) % 12) + 1].degree
       IN  IF cusp_next < cusp_this
           THEN IF planet_long >= cusp_this \/ planet_long < cusp_next
                THEN i + 1
                ELSE PlacidusHouse(planet_long, houses, i + 1)
           ELSE IF cusp_this <= planet_long /\ planet_long < cusp_next
                THEN i + 1
                ELSE PlacidusHouse(planet_long, houses, i + 1)

\* mutant: the whole-sign house index without the + 1
HouseOf_ZeroBased(planet_long, houses, house_system) ==
  IF house_system = "whole_sign"
  THEN LET planet_sign == planet_long \div (30 * Deg)
           first_house_sign == houses[1].degree \div (30 * Deg)
       IN  (planet_sign - first_house_sign) % 12
  ELSE PlacidusHouse(planet_long, houses, 0)

HouseOf(planet_long, houses, house_system) ==
  IF house_system = "whole_sign"
  THEN LET planet_sign == planet_long \div (30 * Deg)
           first_house_sign == houses[1].degree \div (30 * Deg)
       IN  ((planet_sign - first_house_sign) % 12) + 1
  ELSE PlacidusHouse(planet_long, houses, 0)

\* mutant: the body also takes over the sign of its house
assign_planets_to_houses_Resigned(planets, houses, house_system) ==
  [i \in 1..Len(planets) |->
     LET house == HouseOf(planets[i].fullDegree, houses, house_system)
     IN  [planets[i] EXCEPT !.house = house, !.sign = houses[house].sign]]

assign_planets_to_houses(planets, houses, house_system) ==
  [i \in 1..Len(planets) |->
     [planets[i] EXCEPT !.house = HouseOf(planets[i].fullDegree, houses, house_system)]]


-----------------------------------------------------------------------------
(* routes.py: the request model and the requests the model sends *)

\* mutant: latitude declared without its bounds
AstrologyRequest_NoLatitudeBound(r) ==
  /\ 1800 <= r.year /\ r.year <= 2200
  /\ 1 <= r.month /\ r.month <= 12
  /\ 1 <= r.date /\ r.date <= 31
  /\ 0 <= r.hours /\ r.hours <= 23
  /\ 0 <= r.minutes /\ r.minutes <= 59
  /\ 0 <= r.seconds /\ r.seconds <= 59
  /\ -(180 * Deg) <= r.longitude /\ r.longitude <= 180 * Deg
  /\ -(12 * 60) <= r.timezone /\ r.timezone <= 14 * 60
  /\ r.observation_point \in {"topocentric", "geocentric"}
  /\ r.ayanamsha \in {"lahiri", "raman", "krishnamurti", "thirukanitham"}

\* AstrologyRequest: the Field(ge=..., le=...) and pattern constraints.
\* latitude and longitude are in units, timezone in minutes.
AstrologyRequest(r) ==
  /\ 1800 <= r.year /\ r.year <= 2200
  /\ 1 <= r.month /\ r.month <= 12
  /\ 1 <= r.date /\ r.date <= 31
  /\ 0 <= r.hours /\ r.hours <= 23
  /\ 0 <= r.minutes /\ r.minutes <= 59
  /\ 0 <= r.seconds /\ r.seconds <= 59
  /\ -(90 * Deg) <= r.latitude /\ r.latitude <= 90 * Deg
  /\ -(180 * Deg) <= r.longitude /\ r.longitude <= 180 * Deg
  /\ -(12 * 60) <= r.timezone /\ r.timezone <= 14 * 60
  /\ r.observation_point \in {"topocentric", "geocentric"}
  /\ r.ayanamsha \in {"lahiri", "raman", "krishnamurti", "thirukanitham"}

\* 2000-01-01 12:00:00 at Delhi, offset 0 (the scenario of test_validation.py)
BaseRequest ==
  [year |-> 2000, month |-> 1, date |-> 1, hours |-> 12, minutes |-> 0,
   seconds |-> 0, latitude |-> DelhiLat, longitude |-> DelhiLon,
   timezone |-> 0, observation_point |-> "topocentric", ayanamsha |-> "lahiri"]

\* requests that pass validation
AcceptedRequests ==
  {[BaseRequest EXCEPT !.ayanamsha = a] :
     a \in {"lahiri", "raman", "krishnamurti", "thirukanitham"}}
  \cup {[BaseRequest EXCEPT !.latitude = l] : l \in {NorthPole, SouthPole}}
  \cup {[BaseRequest EXCEPT !.hours = 17, !.minutes = 30, !.timezone = 330],
        [BaseRequest EXCEPT !.hours = 0],
        [BaseRequest EXCEPT !.month = 2, !.date = 30]}

\* requests with one field just outside its range
RejectedRequests ==
  {[BaseRequest EXCEPT !.year = v] : v \in {1799, 2201}}
  \cup {[BaseRequest EXCEPT !.month = v] : v \in {0, 13}}
  \cup {[BaseRequest EXCEPT !.date = v] : v \in {0, 32}}
  \cup {[BaseRequest EXCEPT !.hours = v] : v \in {-1, 24}}
  \cup {[BaseRequest EXCEPT !.minutes = v] : v \in {-1, 60}}
  \cup {[BaseRequest EXCEPT !.seconds = v] : v \in {-1, 60}}
  \cup {[BaseRequest EXCEPT !.latitude = v] : v \in {-(90 * Deg) - 1, 90 * Deg + 1}}
  \cup {[BaseRequest EXCEPT !.longitude = v] : v \in {-(180 * Deg) - 1, 180 * Deg + 1}}
  \cup {[BaseRequest EXCEPT !.timezone = v] : v \in {-(12 * 60) - 1, 14 * 60 + 1}}
  \cup {[BaseRequest EXCEPT !.ayanamsha = "tropical"]}

Requests == AcceptedRequests \cup RejectedRequests

-----------------------------------------------------------------------------
(* routes.py: get_birth_chart *)

\* mutant: the Moon is not found, Rahu and Ketu are not added
WithNodes_NoMoon(planets, houses) == planets

\* planets after lines 123-133: the seven planets with their houses, then
\* Rahu and Ketu derived from the Moon's record, with theirs
WithNodes(planets, houses) ==
  LET moons == {i \in 1..Len(planets) : planets[i].name = "Moon"}
  IN  IF moons = {} THEN planets
      ELSE LET moon == planets[CHOOSE i \in moons : \A j \in moons : i <= j]
           IN  planets \o assign_planets_to_houses(calculate_rahu_ketu(moon),
                                                   houses, "whole_sign")

\* lines 100-142, all that follows the ephemeris access: the response body
BirthChart(s, r) ==
  LET dt == utc_dt(r)
      jd == datetime_to_julian_date(dt)
      ayanamsha_value == calculate_lahiri_ayanamsha(jd)
      positions == calculate_planet_positions(s, dt, r.latitude, r.longitude,
                                              r.ayanamsha)
      ascendant == calculate_ascendant(dt, r.latitude, r.longitude, ayanamsha_value)
      houses == calculate_houses_whole_sign(ascendant)
      planets == assign_planets_to_houses(positions, houses, "whole_sign")
  IN  [input |-> r, ascendant |-> ascendant,
       planets |-> WithNodes(planets, houses), houses |-> houses]

\* the except clause, lines 144-149
ChartFailure(exc) ==
  [status |-> 500, body |-> [detail |-> <<"Failed to calculate birth chart", exc>>]]

ChartSuccess(chart) == [status |-> 200, body |-> chart]

\* FastAPI answers a request that fails AstrologyRequest before the handler runs
ValidationFailure == [status |-> 422, body |-> [detail |-> <<"validation">>]]

\* health_check, lines 192-199
HealthResponse ==
  [status |-> 200, body |-> [status |-> "ok", source |-> "internal_astrology_engine"]]


-----------------------------------------------------------------------------
(* The service.  Caller 0 is startup_event of router.py (backend internal); *)
(* callers 1..NumWorkers serve requests once the startup event is over.     *)
(* _ensure_ephemeris takes no lock, so its statements are separate steps    *)
(* that concurrent callers interleave.                                      *)

NumWorkers == 2

Workers == 1..NumWorkers
Callers == {0} \cup Workers

VARIABLES
  eph,          \* planetary._eph: None or the loaded kernel
  ts,           \* planetary._ts
  earth,        \* planetary._earth
  planets_map,  \* planetary._planets_map
  sky,          \* what de421.bsp holds (fixed)
  loads,        \* how often  _eph = load('de421.bsp')  has completed
  proc,         \* per caller: pc, route, request, steps done, log levels, response
  call          \* the last direct call of a library function: fn, arg, out

vars == <<eph, ts, earth, planets_map, sky, loads, proc, call>>

\* no library function has been called directly
NoCall == [fn |-> "none", arg |-> <<>>, out |-> <<>>]

Idle == [pc |-> "idle", route |-> "none", req |-> None, steps |-> <<>>,
         logs |-> <<>>, resp |-> None]

Init ==
  /\ eph = None /\ ts = None /\ earth = None /\ planets_map = None
  /\ sky \in Skies
  /\ loads = 0
  /\ call = NoCall
  /\ proc = [c \in Callers |->
               IF c = 0
               THEN [pc |-> "check", route |-> "startup", req |-> None,
                     steps |-> <<>>, logs |-> <<"info">>, resp |-> None]
               ELSE Idle]

\* the startup event is over: the application serves requests
started == proc[0].pc = "up"

\* _ensure_ephemeris returns to its caller: startup_event logs success
\* (router.py line 45), calculate_planet_positions goes on to line 137
Return(c) ==
  IF c = 0
  THEN [proc[c] EXCEPT !.pc = "up", !.logs = @ \o <<"info">>]
  ELSE [proc[c] EXCEPT !.pc = "observer"]

\* mutant: startup_event lets the exception through and the startup fails
Raise_Uncaught(c, exc) ==
  IF c = 0
  THEN [proc[c] EXCEPT !.pc = "failed", !.logs = @ \o <<"error">>, !.resp = exc]
  ELSE [proc[c] EXCEPT !.pc = "responded", !.logs = @ \o <<"error">>,
                       !.resp = ChartFailure(exc)]

\* an exception leaves calculate_planet_positions or _ensure_ephemeris:
\* startup_event logs it and goes on (router.py lines 46-48), get_birth_chart
\* logs it and answers 500 (routes.py lines 144-149)
Raise(c, exc) ==
  IF c = 0
  THEN [proc[c] EXCEPT !.pc = "up", !.logs = @ \o <<"error">>, !.resp = exc]
  ELSE [proc[c] EXCEPT !.pc = "responded", !.logs = @ \o <<"error">>,
                       !.resp = ChartFailure(exc)]

\* line 24: if _eph is not None: return
EnsureCheck(c) ==
  /\ proc[c].pc = "check"
  /\ proc' = [proc EXCEPT ![c] =
                IF eph # None THEN Return(c)
                ELSE [proc[c] EXCEPT !.pc = "load"]]
  /\ UNCHANGED <<eph, ts, earth, planets_map, sky, call, loads>>

\* line 28: skyfield is not installed; lines 45-48 raise ImportError again
EnsureImportError(c) ==
  /\ proc[c].pc = "load"
  /\ proc' = [proc EXCEPT ![c] = Raise(c, "ImportError")]
  /\ UNCHANGED <<eph, ts, earth, planets_map, sky, call, loads>>

\* line 31: load('de421.bsp') fails (no file, no network)
EnsureLoadError(c) ==
  /\ proc[c].pc = "load"
  /\ proc' = [proc EXCEPT ![c] = Raise(c, "OSError")]
  /\ UNCHANGED <<eph, ts, earth, planets_map, sky, call, loads>>

\* line 31: _eph = load('de421.bsp')
EnsureLoad(c) ==
  /\ proc[c].pc = "load"
  /\ eph' = "de421"
  /\ loads' = loads + 1
  /\ proc' = [proc EXCEPT ![c].pc = "timescale"]
  /\ UNCHANGED <<ts, earth, planets_map, sky, call>>

\* line 32: load.timescale() fails
EnsureTimescaleError(c) ==
  /\ proc[c].pc = "timescale"
  /\ proc' = [proc EXCEPT ![c] = Raise(c, "OSError")]
  /\ UNCHANGED <<eph, ts, earth, planets_map, sky, call, loads>>

\* line 32: _ts = load.timescale()
EnsureTimescale(c) ==
  /\ proc[c].pc = "timescale"
  /\ ts' = "timescale"
  /\ proc' = [proc EXCEPT ![c].pc = "earth"]
  /\ UNCHANGED <<eph, earth, planets_map, sky, call, loads>>

\* line 33: _earth = _eph['earth']
EnsureEarth(c) ==
  /\ proc[c].pc = "earth"
  /\ earth' = <<eph, "earth">>
  /\ proc' = [proc EXCEPT ![c].pc = "map"]
  /\ UNCHANGED <<eph, ts, planets_map, sky, call, loads>>

\* lines 36-44: _planets_map = {...}, then the function returns
EnsureMap(c) ==
  /\ proc[c].pc = "map"
  /\ planets_map' = PLANETS
  /\ proc' = [proc EXCEPT ![c] = Return(c)]
  /\ UNCHANGED <<eph, ts, earth, sky, call, loads>>

_ensure_ephemeris(c) ==
  \/ EnsureCheck(c)
  \/ EnsureImportError(c)
  \/ EnsureLoadError(c)
  \/ EnsureLoad(c)
  \/ EnsureTimescaleError(c)
  \/ EnsureTimescale(c)
  \/ EnsureEarth(c)
  \/ EnsureMap(c)

\* POST /planets arrives.  A request that fails AstrologyRequest is answered
\* 422 before the handler runs.  The handler logs (line 83), builds local_dt
\* (ValueError for a day the month does not have), computes utc_dt, jd and
\* ayanamsha_value and enters calculate_planet_positions, which calls
\* _ensure_ephemeris.
PostPlanets(w, r) ==
  /\ started
  /\ proc[w].pc = "idle"
  /\ proc' = [proc EXCEPT ![w] =
       IF ~AstrologyRequest(r)
       THEN [pc |-> "responded", route |-> "planets", req |-> r,
             steps |-> <<>>, logs |-> <<>>, resp |-> ValidationFailure]
       ELSE IF ~DatetimeOk(r)
       THEN [pc |-> "responded", route |-> "planets", req |-> r,
             steps |-> <<>>, logs |-> <<"info", "error">>,
             resp |-> ChartFailure("ValueError")]
       ELSE [pc |-> "check", route |-> "planets", req |-> r,
             steps |-> <<"julian_date", "ayanamsha", "ephemeris">>,
             logs |-> <<"info">>, resp |-> None]]
  /\ UNCHANGED <<eph, ts, earth, planets_map, sky, call, loads>>

\* GET /health
health_check(w) ==
  /\ started
  /\ proc[w].pc = "idle"
  /\ proc' = [proc EXCEPT ![w] =
       [pc |-> "responded", route |-> "health", req |-> None, steps |-> <<>>,
        logs |-> <<>>, resp |-> HealthResponse]]
  /\ UNCHANGED <<eph, ts, earth, planets_map, sky, call, loads>>

\* planetary.py line 137: observer = _earth + Topos(...)
Observer(w) ==
  /\ proc[w].pc = "observer"
  /\ proc' = [proc EXCEPT ![w] =
       IF earth = None THEN Raise(w, "TypeError")
       ELSE [proc[w] EXCEPT !.pc = "from_datetime"]]
  /\ UNCHANGED <<eph, ts, earth, planets_map, sky, call, loads>>

\* planetary.py line 148: t = _ts.from_datetime(dt)
FromDatetime(w) ==
  /\ proc[w].pc = "from_datetime"
  /\ proc' = [proc EXCEPT ![w] =
       IF ts = None THEN Raise(w, "AttributeError")
       ELSE [proc[w] EXCEPT !.pc = "planets"]]
  /\ UNCHANGED <<eph, ts, earth, planets_map, sky, call, loads>>

\* mutant: the houses are assigned before the ascendant is computed, and
\* Rahu and Ketu are derived before the planets
ChartSteps_NodesFirst ==
  <<"rahu_ketu", "assign", "planets", "houses", "assign", "ascendant">>

\* the order of the calls of get_birth_chart once the ephemeris is loaded:
\* lines 105-110, 113-118, 121, 124, 129, 132
ChartSteps ==
  <<"planets", "ascendant", "houses", "assign", "rahu_ketu", "assign">>

\* planetary.py line 159 to routes.py line 142: _planets_map.items(), the
\* seven positions, then the ascendant, the houses, the house assignment,
\* Rahu and Ketu, and the response
Planets(w) ==
  /\ proc[w].pc = "planets"
  /\ proc' = [proc EXCEPT ![w] =
       IF planets_map = None THEN Raise(w, "AttributeError")
       ELSE [proc[w] EXCEPT
               !.pc = "responded",
               !.steps = @ \o ChartSteps,
               !.logs = @ \o <<"info">>,
               !.resp = ChartSuccess(BirthChart(sky, proc[w].req))]]
  /\ UNCHANGED <<eph, ts, earth, planets_map, sky, call, loads>>

\* the response is sent; the worker takes the next request
Sent(w) ==
  /\ proc[w].pc = "responded"
  /\ proc' = [proc EXCEPT ![w] = Idle]
  /\ UNCHANGED <<eph, ts, earth, planets_map, sky, call, loads>>

Next ==
  \/ \E c \in Callers : _ensure_ephemeris(c)
  \/ \E w \in Workers, r \in Requests : PostPlanets(w, r)
  \/ \E w \in Workers : health_check(w)
  \/ \E w \in Workers : Observer(w)
  \/ \E w \in Workers : FromDatetime(w)
  \/ \E w \in Workers : Planets(w)
  \/ \E w \in Workers : Sent(w)

Spec == Init /\ [][Next]_vars

-----------------------------------------------------------------------------
(* The library.  The functions of signs.py, nakshatras.py, houses.py and   *)
(* planetary.py called directly, as test_validation.py calls them, on      *)
(* inputs around every sign, nakshatra and pada boundary.                  *)

\* longitudes in [0, 360): the first units of every sign and the last ones,
\* every pada boundary, the unit after it and the unit before it
Longitudes ==
  {k * 30 * Deg + d : k \in 0..11, d \in {0, 1, 2, 3, 30 * Deg - 3, 30 * Deg - 2, 30 * Deg - 1}}
  \cup {k * (Circle \div 108) + d : k \in 0..107, d \in {0, 1}}
  \cup {k * (Circle \div 108) - 1 : k \in 1..108}

\* ascendants and midheavens for the Placidus cusps
Angles == {k * 45 * Deg + d : k \in 0..7, d \in {0, 1}}

\* ascendants and midheavens of the charts whose bodies are housed
ChartAngles == {k * 45 * Deg : k \in 0..7} \cup {1, Circle - 1}

\* longitudes of the first body: every 15 degrees, and the rounded values
\* next to them
BodyLongitudes == {(k * 15 * Deg + d) % Circle : k \in 0..23, d \in {-3, 0, 3}}

\* midnight and noon of the 28th and of the last day of every month of the
\* years the request model admits
MonthEnds ==
  UNION {{[ord |-> ToOrdinal(y, m, d), sec |-> sec] :
            d \in {28, DaysInMonth(y, m)}, sec \in {0, 43200}} :
         y \in 1800..2200, m \in 1..12}

\* the datetimes 1950-01-01 00:00:00 and 2000-01-01 00:00:00
Midnight1950 == [ord |-> ToOrdinal(1950, 1, 1), sec |-> 0]
Midnight2000 == [ord |-> ToOrdinal(2000, 1, 1), sec |-> 0]

\* Julian Dates to the second, the resolution of a request
JulianDates ==
  {datetime_to_julian_date([ord |-> d.ord + n, sec |-> sec]) :
     d \in {Midnight1950, Midnight2000}, n \in {-1, 0, 1},
     sec \in {0, 1, 43200, 86399}}

\* longest interval of calculate_planet_speed, in days
MaxInterval == 2

\* tropical longitudes of a body now and interval_days earlier
Positions ==
  {0, Deg \div 2, Deg, 2 * Deg, 90 * Deg, 179 * Deg, 181 * Deg, 270 * Deg,
   358 * Deg, 359 * Deg, 359 * Deg + (Deg \div 2)}

ServiceIdle ==
  /\ eph = None /\ ts = None /\ earth = None /\ planets_map = None
  /\ sky = "almanac"
  /\ loads = 0
  /\ proc = [c \in Callers |-> Idle]

InitLib == ServiceIdle /\ call = NoCall

Service == <<eph, ts, earth, planets_map, sky, loads, proc>>

CallSign(L) ==
  /\ call = NoCall
  /\ call' = [fn |-> "longitude_to_sign", arg |-> <<L>>,
               out |-> longitude_to_sign(L)]
  /\ UNCHANGED Service

CallNakshatra(L) ==
  /\ call = NoCall
  /\ call' = [fn |-> "longitude_to_nakshatra", arg |-> <<L>>,
               out |-> longitude_to_nakshatra(L)]
  /\ UNCHANGED Service

CallWholeSign(ascendant) ==
  /\ call = NoCall
  /\ call' = [fn |-> "calculate_houses_whole_sign", arg |-> <<ascendant>>,
               out |-> calculate_houses_whole_sign(ascendant)]
  /\ UNCHANGED Service

CallPlacidus(ascendant, mc) ==
  /\ call = NoCall
  /\ call' = [fn |-> "calculate_houses_placidus", arg |-> <<ascendant, mc, DelhiLat>>,
               out |-> calculate_houses_placidus(ascendant, mc, DelhiLat)]
  /\ UNCHANGED Service

CallRahuKetu(L) ==
  /\ call = NoCall
  /\ call' = [fn |-> "calculate_rahu_ketu", arg |-> <<[fullDegree |-> L]>>,
               out |-> calculate_rahu_ketu([fullDegree |-> L])]
  /\ UNCHANGED Service

\* the ayanamsha of two Julian Dates
CallLahiri(t1, t2) ==
  /\ call = NoCall
  /\ call' = [fn |-> "calculate_lahiri_ayanamsha", arg |-> <<t1, t2>>,
               out |-> <<[value |-> calculate_lahiri_ayanamsha(t1),
                          fraction |-> LahiriFraction(t1)],
                         [value |-> calculate_lahiri_ayanamsha(t2),
                          fraction |-> LahiriFraction(t2)]>>]
  /\ UNCHANGED Service

CallSpeed(pos_now, pos_prev, interval_days) ==
  /\ call = NoCall
  /\ call' = [fn |-> "calculate_planet_speed",
               arg |-> <<pos_now, pos_prev, interval_days>>,
               out |-> calculate_planet_speed(pos_now, pos_prev, interval_days)]
  /\ UNCHANGED Service

\* assign_planets_to_houses on two planet records and the cusps of the given
\* house system; the lists are changed in place, out holds them after the call
CallAssign(house_system) ==
  /\ call = NoCall
  /\ \E L \in BodyLongitudes :
     \E planets \in {<<PlanetRecord("Sun", L, Deg),
                       PlanetRecord("Moon", (L + 100 * Deg) % Circle, 13 * Deg)>>},
        houses \in IF house_system = "whole_sign"
                   THEN {calculate_houses_whole_sign(ascendant) : ascendant \in ChartAngles}
                   ELSE {calculate_houses_placidus(ascendant, mc, DelhiLat) :
                           ascendant \in ChartAngles, mc \in ChartAngles} :
       call' = [fn |-> "assign_planets_to_houses",
                arg |-> <<planets, houses, house_system>>,
                out |-> [planets |-> assign_planets_to_houses(planets, houses, house_system),
                         houses |-> houses]]
  /\ UNCHANGED Service

\* datetime_to_julian_date of a naive datetime and of the same time on the
\* next calendar day
CallJulianDate ==
  /\ call = NoCall
  /\ \E dt \in MonthEnds :
       \E next \in {[dt EXCEPT !.ord = dt.ord + 1]} :
         call' = [fn |-> "datetime_to_julian_date", arg |-> <<dt, next>>,
                  out |-> <<datetime_to_julian_date(dt), datetime_to_julian_date(next)>>]
  /\ UNCHANGED Service

\* settings.astrology_backend
AstrologyBackend == {"internal", "freeastrology", "mock"}

\* the routes of internal/routes.py
internal_router ==
  {<<"POST", "/planets">>, <<"POST", "/horoscope-chart-svg-code">>, <<"GET", "/health">>}

\* the routes of the FreeAstrology proxy app, freeastrology/main.py
freeastro_app ==
  {<<"GET", "/healthz">>, <<"GET", "/api/astro-core/horoscope/daily">>,
   <<"GET", "/api/astro-core/horoscope/daily/batch">>,
   <<"GET", "/api/astro-core/panchang/today">>}

\* the routes registered on the main app for a backend, each with the module
\* that serves it: the freeastrology branch imports freeastro_app, defines
\* GET / and logs a message
AppRoutes(backend) ==
  [route \in {<<"GET", "/">>}
             \cup (IF backend = "internal" THEN internal_router
                   ELSE IF backend = "freeastrology" THEN {}
                   ELSE {<<"POST", "/planets">>})
     |-> IF route = <<"GET", "/">> THEN "router"
         ELSE IF backend = "internal" THEN "internal.routes"
         ELSE "router.mock_birth_chart"]

\* the main app's routing of a request: the handler of the route, 405 for
\* a known path with another method, 404 for an unknown path
Dispatch(backend, method, path) ==
  LET routes == AppRoutes(backend)
  IN  IF <<method, path>> \in DOMAIN routes
      THEN [status |-> 200, handler |-> routes[<<method, path>>]]
      ELSE IF \E route \in DOMAIN routes : route[2] = path
      THEN [status |-> 405, handler |-> None]
      ELSE [status |-> 404, handler |-> None]

\* the paths a client may ask for
Paths == {route[2] : route \in internal_router \cup freeastro_app} \cup {"/", "/favicon.ico"}

\* a request to the main app started with the given backend
CallApp(backend, method, path) ==
  /\ call = NoCall
  /\ call' = [fn |-> "app", arg |-> <<backend, method, path>>,
               out |-> Dispatch(backend, method, path)]
  /\ UNCHANGED Service

\* calculate_planet_positions for Delhi, the ephemeris holding sky s
CallPositions(s, dt) ==
  /\ call = NoCall
  /\ call' = [fn |-> "calculate_planet_positions",
               arg |-> <<s, dt, DelhiLat, DelhiLon, "lahiri">>,
               out |-> calculate_planet_positions(s, dt, DelhiLat, DelhiLon, "lahiri")]
  /\ UNCHANGED Service

\* the caller has taken the result; the next call can follow
CallDone ==
  /\ call # NoCall
  /\ call' = NoCall
  /\ UNCHANGED Service

NextLib ==
  \/ \E L \in Longitudes : CallSign(L)
  \/ \E L \in Longitudes : CallNakshatra(L)
  \/ \E ascendant \in Longitudes : CallWholeSign(ascendant)
  \/ \E ascendant \in Angles, mc \in Angles : CallPlacidus(ascendant, mc)
  \/ \E L \in Longitudes : CallRahuKetu(L)
  \/ \E t1 \in JulianDates, t2 \in JulianDates : CallLahiri(t1, t2)
  \/ \E pos_now \in Positions, pos_prev \in Positions, d \in 1..MaxInterval :
        CallSpeed(pos_now, pos_prev, d)
  \/ \E s \in Skies \cup {"station"}, dt \in {Noon, Midnight2000} : CallPositions(s, dt)
  \/ \E house_system \in {"whole_sign", "placidus"} : CallAssign(house_system)
  \/ CallJulianDate
  \/ \E backend \in AstrologyBackend, method \in {"GET", "POST"}, path \in Paths :
       CallApp(backend, method, path)
  \/ CallDone

SpecLib == InitLib /\ [][NextLib]_vars


-----------------------------------------------------------------------------
(* Properties *)

\* worker w holds the response to a POST /planets request
Answered(w) == proc[w].pc = "responded" /\ proc[w].route = "planets"
\* ... and the response is a chart
Charted(w) == Answered(w) /\ proc[w].resp.status = 200

HandleComplete ==
  eph # None /\ ts # None /\ earth # None /\ planets_map # None

EphemerisErrors == {"ImportError", "OSError", "TypeError", "AttributeError"}

\* C1: across any interleaving of callers the load that fills the handle
\* (_eph = load('de421.bsp')) is executed at most once per process.
C1_LoadAtMostOnce == loads <= 1

\* C2: whenever a call of _ensure_ephemeris has returned normally (startup
\* logs success, or calculate_planet_positions goes on to build the
\* observer), _eph, _ts, _earth and _planets_map are all set, and no chart
\* computation fails on reading an unset _earth, _ts or _planets_map.
C2_NoPartialHandle ==
  /\ \A w \in Workers : proc[w].pc = "observer" => HandleComplete
  /\ (proc[0].pc = "up" /\ proc[0].resp = None) => HandleComplete
  /\ \A w \in Workers :
       Answered(w) /\ proc[w].resp.status = 500
         => proc[w].resp.body.detail[2] \notin {"TypeError", "AttributeError"}

BodyNames == <<"Sun", "Moon", "Mars", "Mercury", "Jupiter", "Venus", "Saturn",
               "Rahu", "Ketu">>

FullChart(body) ==
  /\ DOMAIN body = {"input", "ascendant", "planets", "houses"}
  /\ body.ascendant \in Int
  /\ Len(body.planets) = 9
  /\ \A n \in 1..9 : \E i \in 1..9 : body.planets[i].name = BodyNames[n]
  /\ Len(body.houses) = 12

\* C3: a POST /planets computation ends either in a response with the
\* ascendant, all 9 bodies and all 12 houses, or in a failure that carries no
\* chart data; never in a response with fewer bodies or houses.
C3_AllOrNothing ==
  \A w \in Workers :
    Answered(w) =>
      \/ proc[w].resp.status = 200 /\ FullChart(proc[w].resp.body)
      \/ proc[w].resp.status \in {422, 500} /\ DOMAIN proc[w].resp.body = {"detail"}

C3_Witness ==
  \E w, v \in Workers :
    /\ Charted(w) /\ FullChart(proc[w].resp.body)
    /\ Answered(v) /\ proc[v].resp.status = 500

\* the ephemeris load of the startup event raised
StartupLoadFailed == proc[0].resp # None

\* C4: if the ephemeris load fails in the startup event, the service still
\* starts and GET /health answers ok; the failure shows only in POST /planets,
\* as a 500.
C4_StartupFailureDeferred ==
  StartupLoadFailed =>
    /\ started
    /\ \A w \in Workers :
         (proc[w].pc = "responded" /\ proc[w].route = "health")
           => proc[w].resp.status = 200 /\ proc[w].resp.body.status = "ok"
    /\ \A w \in Workers :
         (Answered(w) /\ "detail" \in DOMAIN proc[w].resp.body
            /\ proc[w].resp.body.detail[Len(proc[w].resp.body.detail)] \in EphemerisErrors)
           => proc[w].resp.status = 500

C4_Witness ==
  /\ StartupLoadFailed
  /\ started
  /\ \E w, v \in Workers :
       /\ proc[w].pc = "responded" /\ proc[w].route = "health"
       /\ proc[w].resp.body.status = "ok"
       /\ Answered(v) /\ proc[v].resp.status = 500
       /\ proc[v].resp.body.detail[2] \in EphemerisErrors

\* C5: a chart request whose latitude is exactly +90 or -90 is rejected: no
\* ascendant is computed or returned for it.
C5_PoleRejected ==
  \A w \in Workers :
    (Answered(w) /\ proc[w].req.latitude \in {NorthPole, SouthPole})
      => /\ proc[w].resp.status # 200
         /\ "ascendant" \notin DOMAIN proc[w].resp.body

\* the ranges of the request contract (spec section 6), latitude and
\* longitude in units and timezone in minutes
InDeclaredRanges(r) ==
  /\ r.year \in 1800..2200 /\ r.month \in 1..12 /\ r.date \in 1..31
  /\ r.hours \in 0..23 /\ r.minutes \in 0..59 /\ r.seconds \in 0..59
  /\ r.latitude \in (-(90 * Deg))..(90 * Deg)
  /\ r.longitude \in (-(180 * Deg))..(180 * Deg)
  /\ r.timezone \in (-720)..840

\* C6: a request with a field outside its declared range is rejected before
\* any computation step runs and is answered with a client-side failure; the
\* value is not clamped into range (no chart is computed from it).
C6_OutOfRangeRejected ==
  \A w \in Workers :
    (proc[w].route = "planets" /\ ~InDeclaredRanges(proc[w].req))
      => /\ proc[w].pc = "responded"
         /\ proc[w].steps = <<>>
         /\ proc[w].resp.status = 422
         /\ DOMAIN proc[w].resp.body = {"detail"}

C6_Witness ==
  \E w \in Workers :
    /\ Answered(w) /\ ~InDeclaredRanges(proc[w].req)
    /\ proc[w].resp.status = 422
    /\ proc[w].req.latitude > 90 * Deg

\* r and q are the same request up to the ayanamsha field
SameButAyanamsha(r, q) == [r EXCEPT !.ayanamsha = "lahiri"] = [q EXCEPT !.ayanamsha = "lahiri"]

AyanamshaNames == {"lahiri", "raman", "krishnamurti", "thirukanitham"}

\* C7: two requests that differ only in the ayanamsha field get the same
\* chart (ascendant, every planet record, every house), and a non-Lahiri
\* value is not rejected.
C7_AyanamshaIgnored ==
  /\ \A w, v \in Workers :
       (Charted(w) /\ Charted(v) /\ SameButAyanamsha(proc[w].req, proc[v].req))
         => /\ proc[w].resp.body.ascendant = proc[v].resp.body.ascendant
            /\ proc[w].resp.body.planets = proc[v].resp.body.planets
            /\ proc[w].resp.body.houses = proc[v].resp.body.houses
  /\ \A w \in Workers :
       (Answered(w) /\ SameButAyanamsha(proc[w].req, BaseRequest)
          /\ proc[w].req.ayanamsha \in AyanamshaNames)
         => \/ proc[w].resp.status = 200
            \/ proc[w].resp.body.detail[2] \in EphemerisErrors

C7_Witness ==
  \E w, v \in Workers :
    /\ Charted(w) /\ Charted(v)
    /\ SameButAyanamsha(proc[w].req, proc[v].req)
    /\ proc[w].req.ayanamsha = "lahiri"
    /\ proc[v].req.ayanamsha = "raman"

\* C8: whenever a chart is computed for an ayanamsha other than lahiri, a
\* warning-level signal is emitted, and the computation succeeds.
C8_FallbackWarned ==
  \A w \in Workers :
    (Charted(w) /\ proc[w].req.ayanamsha # "lahiri")
      => \E i \in 1..Len(proc[w].logs) : proc[w].logs[i] = "warning"

\* C9: a chart response lists exactly the 9 bodies Sun, Moon, Mars, Mercury,
\* Jupiter, Venus, Saturn, Rahu, Ketu in that order, each with a house in
\* 1..12 (never the sentinel 0).
C9_NineBodiesHoused ==
  \A w \in Workers :
    Charted(w) =>
      /\ [i \in 1..Len(proc[w].resp.body.planets) |-> proc[w].resp.body.planets[i].name]
           = BodyNames
      /\ \A i \in 1..Len(proc[w].resp.body.planets) :
           proc[w].resp.body.planets[i].house \in 1..12

\* the Moon's rounded longitude is 360, so its sign index is 12
C9_Witness ==
  \E w \in Workers :
    /\ Charted(w)
    /\ Len(proc[w].resp.body.planets) = 9
    /\ proc[w].resp.body.planets[2].fullDegree = Circle
    /\ proc[w].resp.body.planets[9].house \in 1..12

InCircle(x) == 0 <= x /\ x < Circle

\* C10: every longitude in the output is at least 0 and less than 360: each
\* body's fullDegree (Rahu and Ketu too), each house cusp degree and the
\* ascendant, as output after rounding to 6 decimals.
C10_LongitudesInCircle ==
  \A w \in Workers :
    Charted(w) =>
      /\ InCircle(proc[w].resp.body.ascendant)
      /\ \A i \in 1..Len(proc[w].resp.body.planets) :
           InCircle(proc[w].resp.body.planets[i].fullDegree)
      /\ \A i \in 1..Len(proc[w].resp.body.houses) :
           InCircle(proc[w].resp.body.houses[i].degree)

-----------------------------------------------------------------------------
(* Properties of the library functions and of the chart arithmetic *)

\* C11: calculate_houses_whole_sign and calculate_houses_placidus return 12
\* records whose house numbers are 1, 2, ..., 12 in that order.
C11_TwelveHouses ==
  call.fn \in {"calculate_houses_whole_sign", "calculate_houses_placidus"}
    => /\ DOMAIN call.out = 1..12
       /\ \A n \in 1..12 : call.out[n].house = n

\* Placidus cusps across the seam, and whole-sign houses for the last unit
\* of Pisces
C11_Witness ==
  \/ /\ call.fn = "calculate_houses_placidus"
     /\ call.arg[1] = 315 * Deg + 1 /\ call.arg[2] = 0
     /\ call.out[12].house = 12
  \/ /\ call.fn = "calculate_houses_whole_sign"
     /\ call.arg[1] = Circle - 1
     /\ call.out[12].house = 12

\* the index of the sign that contains longitude L of [0, 360)
SignContaining(L) == CHOOSE k \in 0..11 : k * 30 * Deg <= L /\ L < (k + 1) * 30 * Deg

\* C12: for an ascendant in [0, 360), Whole Sign house n carries the sign
\* n - 1 signs after the sign containing the ascendant and its cusp degree is
\* 30 times that sign's index; house 1 carries the ascendant's sign.
C12_WholeSignAlignment ==
  call.fn = "calculate_houses_whole_sign"
    => LET f == SignContaining(call.arg[1])
       IN  /\ \A n \in 1..12 :
                /\ call.out[n].sign = SIGNS[((f + n - 1) % 12) + 1]
                /\ call.out[n].degree = ((f + n - 1) % 12) * 30 * Deg
                /\ call.out[n].degree % (30 * Deg) = 0
           /\ call.out[1].sign = SIGNS[f + 1]

\* the ascendant is the last unit of Aries
C12_Witness ==
  /\ call.fn = "calculate_houses_whole_sign"
  /\ call.arg[1] = 30 * Deg - 1
  /\ call.out[1].sign = "Aries" /\ call.out[12].sign = "Pisces"

SignIndex(name) == CHOOSE k \in 0..11 : SIGNS[k + 1] = name

\* C13: in Whole Sign mode each body of a chart gets the house
\* ((s - f) mod 12) + 1, s the index of the sign in the body's record and f
\* the index of the sign on house 1's cusp; it is in 1..12 and the sign of
\* that house is the sign of the body's record.
C13_HouseMatchesSign ==
  \A w \in Workers :
    Charted(w) =>
      LET b == proc[w].resp.body
          f == SignIndex(b.houses[1].sign)
      IN  \A i \in 1..Len(b.planets) :
            /\ b.planets[i].house = ((SignIndex(b.planets[i].sign) - f) % 12) + 1
            /\ b.planets[i].house \in 1..12
            /\ b.houses[b.planets[i].house].sign = b.planets[i].sign

\* C14: the Sun's record of a chart has isRetro = false (its speed is not
\* negative), also when the Sun crosses 0/360 between the two samples.
C14_SunNeverRetro ==
  \A w \in Workers :
    Charted(w) =>
      /\ proc[w].resp.body.planets[1].name = "Sun"
      /\ proc[w].resp.body.planets[1].isRetro = FALSE
      /\ proc[w].resp.body.planets[1].speed >= 0

\* the Sun was at 359.48 a day earlier and is at 0.5 now
C14_Witness ==
  \E w \in Workers :
    /\ Charted(w)
    /\ sky = "boundary" /\ utc_dt(proc[w].req) = Noon
    /\ Ephemeris(sky, Noon).Sun.now < Ephemeris(sky, Noon).Sun.prev
    /\ proc[w].resp.body.planets[1].speed = 3060000

JdLess(a, b) == a.k < b.k \/ (a.k = b.k /\ a.ms < b.ms)

\* ayanamsha a is less than ayanamsha b, units first, then the fraction
AyanamshaLess(a, b) ==
  \/ a.value < b.value
  \/ /\ a.value = b.value
     /\ \/ a.fraction.num < b.fraction.num
        \/ a.fraction.num = b.fraction.num /\ a.fraction.sub < b.fraction.sub

\* C16: calculate_lahiri_ayanamsha is strictly increasing in the Julian
\* Date, is 23.85 at JD 2433282.5, and for 2000-01-01 00:00 UTC (Julian Date
\* from datetime_to_julian_date) lies in [24.0, 25.0].
C16_LahiriIncreasing ==
  call.fn = "calculate_lahiri_ayanamsha"
    => /\ JdLess(call.arg[1], call.arg[2]) => AyanamshaLess(call.out[1], call.out[2])
       /\ call.arg[1] = [k |-> 2433282, ms |-> 0]
            => /\ call.out[1].value = 23 * Deg + ((85 * Deg) \div 100)
               /\ call.out[1].fraction = [num |-> 0, sub |-> 0]
       /\ call.arg[1] = datetime_to_julian_date(Midnight2000)
            => (24 * Deg <= call.out[1].value /\ call.out[1].value < 25 * Deg)

\* JD 2433282.5 and the Julian Date one second later, and the scenario
\* 2000-01-01 00:00 against the day before
C16_Witness ==
  /\ call.fn = "calculate_lahiri_ayanamsha"
  /\ \/ /\ call.arg[1] = datetime_to_julian_date(Midnight1950)
        /\ call.arg[1] = [k |-> 2433282, ms |-> 0]
        /\ call.arg[2] = [k |-> 2433282, ms |-> 1000]
        /\ call.out[1].value = call.out[2].value
        /\ AyanamshaLess(call.out[1], call.out[2])
     \/ /\ call.arg[2] = datetime_to_julian_date(Midnight2000)
        /\ call.arg[1] = [call.arg[2] EXCEPT !.k = @ - 1]
        /\ call.out[1].value < call.out[2].value

\* C17: longitude_to_sign returns the entry at index floor(L/30) mod 12, and
\* longitude_to_nakshatra the entry at index floor(L/(360/27)) mod 27 with
\* pada floor((L mod (360/27)) / (360/108)) + 1, one of 1..4.
C17_LookupFormulas ==
  /\ call.fn = "longitude_to_sign"
       => /\ call.out.sign_num = (call.arg[1] \div (30 * Deg)) % 12
          /\ call.out.sign_name = SIGNS[call.out.sign_num + 1]
  /\ call.fn = "longitude_to_nakshatra"
       => /\ call.out.nakshatra_num = (call.arg[1] \div (Circle \div 27)) % 27
          /\ call.out.nakshatra_name = NAKSHATRAS[call.out.nakshatra_num + 1]
          /\ call.out.pada
               = ((call.arg[1] % (Circle \div 27)) \div (Circle \div 108)) + 1
          /\ call.out.pada \in 1..4

\* C18: in a chart computation the ascendant is computed before any house
\* assignment and the planetary positions before Rahu and Ketu are derived.
C18_StepOrder ==
  \A w \in Workers :
    proc[w].route = "planets" =>
      \A j \in 1..Len(proc[w].steps) :
        /\ proc[w].steps[j] = "assign"
             => \E i \in 1..(j - 1) : proc[w].steps[i] = "ascendant"
        /\ proc[w].steps[j] = "rahu_ketu"
             => \E i \in 1..(j - 1) : proc[w].steps[i] = "planets"

C18_Witness ==
  \E w \in Workers :
    /\ Charted(w)
    /\ \E j \in 1..Len(proc[w].steps) : proc[w].steps[j] = "rahu_ketu"
    /\ \E j \in 1..Len(proc[w].steps) : proc[w].steps[j] = "assign"

\* r and q give the same place and the same absolute instant,
\* local - offset, in two (local civil time, offset) pairs
SameInstant(r, q) ==
  /\ r.latitude = q.latitude /\ r.longitude = q.longitude
  /\ r.ayanamsha = q.ayanamsha
  /\ DatetimeOk(r) /\ DatetimeOk(q)
  /\ (local_dt(r).ord - local_dt(q).ord) * 86400
       + (local_dt(r).sec - local_dt(q).sec) = (r.timezone - q.timezone) * 60

\* C19: two requests for the same absolute instant and place, given with
\* different local times and offsets, get the same ascendant, planets and
\* houses.
C19_SameInstantSameChart ==
  \A w, v \in Workers :
    (Charted(w) /\ Charted(v) /\ SameInstant(proc[w].req, proc[v].req))
      => /\ proc[w].resp.body.ascendant = proc[v].resp.body.ascendant
         /\ proc[w].resp.body.planets = proc[v].resp.body.planets
         /\ proc[w].resp.body.houses = proc[v].resp.body.houses

\* 12:00 at offset 0 and 17:30 at offset +5:30
C19_Witness ==
  \E w, v \in Workers :
    /\ Charted(w) /\ Charted(v)
    /\ SameInstant(proc[w].req, proc[v].req)
    /\ proc[w].req.timezone = 0 /\ proc[w].req.hours = 12
    /\ proc[v].req.timezone = 330 /\ proc[v].req.hours = 17

\* the raw delta with the +-360 correction of the spec
CorrectedDelta(d) ==
  IF d > 180 * Deg THEN d - Circle
  ELSE IF d < -(180 * Deg) THEN d + Circle
  ELSE d

\* C20: calculate_planet_speed corrects the raw delta pos_now - pos_prev by
\* +-360 when its magnitude exceeds 180 and then divides by interval_days.
C20_CorrectionBeforeDivision ==
  call.fn = "calculate_planet_speed"
    => call.out = CorrectedDelta(call.arg[1] - call.arg[2]) \div call.arg[3]

\* C21: in every planet record of calculate_planet_positions isRetro is
\* true exactly when the speed carried in the record is negative.
C21_RetroIffNegativeSpeed ==
  call.fn = "calculate_planet_positions"
    => \A i \in 1..Len(call.out) :
         call.out[i].isRetro <=> (call.out[i].speed < 0)

\* the arc from cusp a forward to cusp b, in house order
Arc(a, b) == (b - a) % Circle

\* the point a given third of the way along the arc from a to b
ArcThird(a, b, thirds) ==
  LET arc == Arc(a, b)
      part == IF thirds = 1 THEN arc \div 3 ELSE arc - ((arc + 2) \div 3)
  IN  (a + part) % Circle

\* C22: calculate_houses_placidus puts cusps 1, 4, 7, 10 at the ascendant,
\* MC + 180, ascendant + 180 and MC, and the cusps between them at one third
\* and two thirds of the arc from one angular cusp to the next in house
\* order, also when that arc crosses 0/360.
C22_PlacidusTrisection ==
  call.fn = "calculate_houses_placidus"
    => LET ascendant == call.arg[1]
           mc == call.arg[2]
           angular == <<ascendant, (mc + 180 * Deg) % Circle,
                        (ascendant + 180 * Deg) % Circle, mc>>
       IN  \A q \in 0..3 :
             LET a == angular[q + 1]
                 b == angular[((q + 1) % 4) + 1]
             IN  /\ call.out[3 * q + 1].degree = Round6(a)
                 /\ call.out[3 * q + 2].degree = Round6(ArcThird(a, b, 1))
                 /\ call.out[3 * q + 3].degree = Round6(ArcThird(a, b, 2))

\* the houses whose interval test the longitude passes
Matching(planet_long, houses) ==
  {i \in 0..11 : PlacidusMember(planet_long, houses, i)}

\* C23: with Placidus cusps, every body longitude in [0, 360) passes the
\* test of at least one of the 12 intervals and is given the house of the
\* first interval it passes; no body gets house 1 for want of a match.
C23_PlacidusFirstMatch ==
  (call.fn = "assign_planets_to_houses" /\ call.arg[3] = "placidus")
    => \A p \in 1..Len(call.out.planets) :
         LET body == call.out.planets[p]
             M == Matching(body.fullDegree, call.arg[2])
         IN  body.fullDegree < Circle
               => /\ M # {}
                  /\ \E i \in M : /\ body.house = i + 1
                                  /\ \A j \in M : i <= j

C23_Witness ==
  /\ call.fn = "assign_planets_to_houses"
  /\ call.arg[3] = "placidus"
  /\ \E i \in 1..11 :
       /\ call.arg[2][i + 1].degree > call.arg[2][((i + 1) % 12) + 1].degree
       /\ call.out.planets[1].fullDegree < call.arg[2][((i + 1) % 12) + 1].degree
       /\ call.out.planets[1].house = i + 1

\* C24: the 12 Placidus intervals are pairwise disjoint: no longitude
\* passes the test of two houses.
C24_IntervalsDisjoint ==
  call.fn = "calculate_houses_placidus"
    => \A L \in BodyLongitudes : Cardinality(Matching(L, call.out)) <= 1

\* C30: assign_planets_to_houses changes nothing but the house field of each
\* body: the houses list, the number and order of the bodies and every other
\* field stay as they were, and a second call on the result changes nothing.
C30_OnlyHouseWritten ==
  call.fn = "assign_planets_to_houses"
    => LET before == call.arg[1]
           after == call.out.planets
       IN  /\ call.out.houses = call.arg[2]
           /\ Len(after) = Len(before)
           /\ \A i \in 1..Len(before) :
                /\ DOMAIN after[i] = DOMAIN before[i]
                /\ \A field \in DOMAIN before[i] \ {"house"} :
                     after[i][field] = before[i][field]
                /\ after[i].house \in 1..12
           /\ assign_planets_to_houses(after, call.out.houses, call.arg[3]) = after

C30_Witness ==
  /\ call.fn = "assign_planets_to_houses"
  /\ call.arg[1][1].house = 0
  /\ call.arg[3] = "placidus"
  /\ call.out.planets[1].house > 1
  /\ call.out.planets[2].house > call.out.planets[1].house
  /\ call.out.planets[1].sign # call.arg[2][call.out.planets[1].house].sign

\* C25: datetime_to_julian_date is the Julian Date of the Gregorian
\* calendar: 2000-01-01 12:00 UTC, given as a naive datetime, is 2451545.0
\* (day 2451544.5 plus half a day), the Julian Date is the day's ordinal plus
\* 1721424.5, and the same time on the next calendar day is exactly 1 more,
\* across month ends, year ends and leap days from 1800 to 2200.
C25_JulianDate ==
  call.fn = "datetime_to_julian_date"
    => /\ call.out[2].k = call.out[1].k + 1
       /\ call.out[2].ms = call.out[1].ms
       /\ call.out[1].k = call.arg[1].ord + 1721424
       /\ call.out[1].ms = call.arg[1].sec * 1000
       /\ \A i \in 1..2 :
            call.arg[i] = Noon => call.out[i] = [k |-> 2451544, ms |-> 43200000]

C25_Witness ==
  /\ call.fn = "datetime_to_julian_date"
  /\ call.arg[1] = [ord |-> ToOrdinal(2000, 2, 29), sec |-> 43200]
  /\ call.arg[2] = [ord |-> ToOrdinal(2000, 3, 1), sec |-> 43200]
  /\ call.out = <<[k |-> 2451603, ms |-> 43200000], [k |-> 2451604, ms |-> 43200000]>>

\* C26: when _ensure_ephemeris fails at any step the handle is left fully
\* unset: once no caller is between the load and the end of the function,
\* _eph is never set with _ts, _earth or _planets_map unset.
C26_FailureLeavesUnset ==
  (\A c \in Callers : proc[c].pc \notin {"timescale", "earth", "map"})
    => \/ eph = None /\ ts = None /\ earth = None /\ planets_map = None
       \/ HandleComplete

\* the Julian Date and the ayanamsha get_birth_chart computes for the
\* ascendant (routes.py 101-102)
AscendantAyanamsha(r) ==
  LET jd == datetime_to_julian_date(utc_dt(r))
  IN  [jd |-> jd, value |-> calculate_lahiri_ayanamsha(jd), fraction |-> LahiriFraction(jd)]

\* the Julian Date and the ayanamsha calculate_planet_positions computes for
\* the planets (planetary.py 148-155)
PositionsAyanamsha(r) ==
  LET t == TT(datetime_to_julian_date(utc_dt(r)))
  IN  [jd |-> t, value |-> PlanetAyanamsha(r.ayanamsha, t), fraction |-> LahiriFraction(t)]

\* C27: within one chart a single ayanamsha value, computed from the same
\* Julian Date, is used for the planets and for the ascendant.
C27_SingleAyanamsha ==
  \A w \in Workers :
    Charted(w) => PositionsAyanamsha(proc[w].req) = AscendantAyanamsha(proc[w].req)

\* C28: a 500 answer of POST /planets comes only from a failed computation
\* or an unavailable ephemeris; a failure caused by the input, a 30 February
\* included, is answered with a client error (4xx).
C28_ServerErrorNotFromInput ==
  \A w \in Workers :
    Answered(w)
      => /\ proc[w].resp.status = 500
              => proc[w].resp.body.detail[2] \in EphemerisErrors
         /\ (~AstrologyRequest(proc[w].req) \/ ~DatetimeOk(proc[w].req))
              => proc[w].resp.status \in 400..499

\* C29: the main app routes to the configured backend: internal serves the
\* internal chart routes, mock serves its mock POST /planets, and with
\* freeastrology every route of the FreeAstrology proxy app (horoscope,
\* panchang) is served through the main app.
C29_BackendRouting ==
  call.fn = "app"
    => LET backend == call.arg[1]
           route == <<call.arg[2], call.arg[3]>>
       IN  /\ (backend = "internal" /\ route \in internal_router)
                => call.out = [status |-> 200, handler |-> "internal.routes"]
           /\ (backend = "mock" /\ route = <<"POST", "/planets">>)
                => call.out = [status |-> 200, handler |-> "router.mock_birth_chart"]
           /\ (backend = "freeastrology" /\ route \in freeastro_app)
                => call.out.status = 200

=============================================================================
